---------------------------- MODULE Spec2Model ----------------------------
(***************************************************************************)
(* Model of notebooks/synonyms_wordnet.ipynb: the synonym graph builder    *)
(* (get_syngraph_wordset) and the dataset generator (create_dataset).      *)
(*                                                                         *)
(* A word is a sequence of one-character strings, so that the separator    *)
(* test and the edit distance are computed on its spelling.  A graph is    *)
(* networkx's Graph: the nodes in insertion order and, per node, its       *)
(* neighbours in insertion order.                                          *)
(***************************************************************************)
EXTENDS Integers, Sequences, FiniteSets, TLC

VARIABLES
    synsets,      \* pos_synsets[pos]: the category's list of lemma-name lists
    pos,          \* the category (the one key of pos_synsets / syn_graphs)
    built,        \* number of synsets get_syngraph_wordset has consumed
    graph,        \* syn_graphs[pos]
    ratio,        \* train_test_component_ratio, as <<numerator, denominator>>
    k,            \* negative_sampling_count
    pc,           \* position of the run
    i,            \* number of entries of `edges` the split loop has consumed
    train_words, test_words, train_edges, test_edges,
    j,            \* number of edges the emitting loops have consumed, the
                  \* train edges first
    records,      \* the records yielded so far, in order
    fault,        \* the exception that ended the run, or "none"
    draws,        \* what the generator seeded by random.seed(0) has returned
    drawn,        \* number of draws this process has taken from the generator
    process,      \* 1: first execution of the notebook, 2: a second execution
    first_records \* the records the first execution yielded

vars == <<synsets, pos, built, graph, ratio, k, pc, i, train_words, test_words,
          train_edges, test_edges, j, records, fault, draws, drawn,
          process, first_records>>

-----------------------------------------------------------------------------
(* Bounds of the model *)

MaxSynsets == 2
MaxLemmas == 2
MaxPairSynsets == 3

\* negative_sampling_count=1, the default
DefaultNegativeSamplingCount == 1

\* if editdistance.eval(w1, w2) < 2
MinEditDistance == 2

-----------------------------------------------------------------------------
(* Words *)

W_run == <<"r", "u", "n">>
W_runs == <<"r", "u", "n", "s">>
W_buy == <<"b", "u", "y">>
W_sell == <<"s", "e", "l", "l">>
W_own == <<"o", "w", "n">>
W_buy_out == <<"b", "u", "y", "_", "o", "u", "t">>
W_re_run == <<"r", "e", "-", "r", "u", "n">>
W_change == <<"c", "h", "a", "n", "g", "e">>
W_alter == <<"a", "l", "t", "e", "r">>
W_modify == <<"m", "o", "d", "i", "f", "y">>
W_transform == <<"t", "r", "a", "n", "s", "f", "o", "r", "m">>

\* the lemma names the builder's inputs are drawn from: three single words
\* and a multi-word name, written with '_' or with '-'
BuilderSingleWords == {W_run, W_buy, W_own}
BuilderWords == BuilderSingleWords \cup {W_buy_out, W_re_run}
\* the single words the dataset generator's graphs are built from
PlainWords == {W_run, W_runs, W_buy, W_sell, W_own}
ExampleWords == {W_change, W_alter, W_modify, W_transform}
Words == BuilderWords \cup PlainWords \cup ExampleWords

Range(s) == {s[n] : n \in 1..Len(s)}

Min2(a, b) == IF a <= b THEN a ELSE b

\* '_' not in word and '-' not in word
IsSingleWord(word) == ("_" \notin Range(word)) /\ ("-" \notin Range(word))

\* One row of the Levenshtein table from the row before it.
RECURSIVE LevRow(_, _, _, _)
LevRow(prev, c, b, cur) ==
    IF Len(cur) = Len(b) + 1 THEN cur
    ELSE LET n == Len(cur)
             sub == prev[n] + (IF c = b[n] THEN 0 ELSE 1)
         IN LevRow(prev, c, b,
                   Append(cur, Min2(Min2(prev[n + 1] + 1, cur[n] + 1), sub)))

RECURSIVE LevRows(_, _, _, _)
LevRows(a, b, n, prev) ==
    IF n > Len(a) THEN prev[Len(b) + 1]
    ELSE LevRows(a, b, n + 1, LevRow(prev, a[n], b, <<prev[1] + 1>>))

\* editdistance.eval(a, b): the Levenshtein distance
EditDistance(a, b) == LevRows(a, b, 1, [n \in 1..(Len(b) + 1) |-> n - 1])

-----------------------------------------------------------------------------
(* networkx.Graph *)

EmptyGraph == [nodes |-> <<>>, adj |-> [w \in Words |-> <<>>]]

AddNode(g, u) ==
    IF u \in Range(g.nodes) THEN g ELSE [g EXCEPT !.nodes = Append(@, u)]

\* adj[u][v] = {}: a key already present keeps its place
AddNbr(g, u, v) ==
    IF v \in Range(g.adj[u]) THEN g ELSE [g EXCEPT !.adj[u] = Append(@, v)]

\* Graph.add_edge(u, v)
AddEdge(g, u, v) == AddNbr(AddNbr(AddNode(AddNode(g, u), v), u, v), v, u)

\* Graph.add_edges_from(pairs)
RECURSIVE AddEdgesFrom(_, _)
AddEdgesFrom(g, pairs) ==
    IF pairs = <<>> THEN g
    ELSE AddEdgesFrom(AddEdge(g, pairs[1][1], pairs[1][2]), Tail(pairs))

\* list(graph.neighbors(w))
Neighbors(g, w) == g.adj[w]

\* graph.edges: per node in node order, its neighbours that are not a node
\* already passed
RECURSIVE EdgesFrom(_, _)
EdgesFrom(g, n) ==
    IF n > Len(g.nodes) THEN <<>>
    ELSE LET u == g.nodes[n]
             seen == {g.nodes[m] : m \in 1..(n - 1)}
             pick == SelectSeq(g.adj[u], LAMBDA v : v \notin seen)
         IN [m \in 1..Len(pick) |-> <<u, pick[m]>>] \o EdgesFrom(g, n + 1)

Edges(g) == EdgesFrom(g, 1)

\* the unordered pairs the graph joins
EdgeSet(g) == {{e[1], e[2]} : e \in Range(Edges(g))}

-----------------------------------------------------------------------------
(* get_syngraph_wordset *)

\* (a variant that pairs only neighbouring names)
Combinations2Adjacent(l) == [n \in 1..(Len(l) - 1) |-> <<l[n], l[n + 1]>>]

\* itertools.combinations(l, 2)
RECURSIVE Combinations2(_)
Combinations2(l) ==
    IF Len(l) < 2 THEN <<>>
    ELSE [n \in 1..(Len(l) - 1) |-> <<l[1], l[n + 1]>>] \o Combinations2(Tail(l))

\* (a variant that keeps every lemma name)
LemmaNamesUnfiltered(synset) == synset

\* [x for x in synset.lemma_names() if _is_single_word(x)]
LemmaNames(synset) == SelectSeq(synset, IsSingleWord)

\* the body of the loop over synsets
AddSynset(g, synset) ==
    LET lemma_names == LemmaNames(synset)
    IN IF Len(lemma_names) > 1
       THEN AddEdgesFrom(g, Combinations2(lemma_names))
       ELSE g

RECURSIVE BuildGraph(_, _)
BuildGraph(g, ss) ==
    IF ss = <<>> THEN g ELSE BuildGraph(AddSynset(g, ss[1]), Tail(ss))

\* get_syngraph_wordset(pos_synsets)[pos]
SynGraph(ss) == BuildGraph(EmptyGraph, ss)


-----------------------------------------------------------------------------
(* Inputs *)

\* the sequences of at most n different members of S
DistinctSeqs(S, n) ==
    {s \in UNION {[1..m -> S] : m \in 0..n} :
        \A a, b \in 1..Len(s) : a # b => s[a] # s[b]}

\* the lists of at most n members of S
ListsUpTo(S, n) == UNION {[1..m -> S] : m \in 0..n}

\* weights = {'verb': 1.15, 'adjective': 1.0, 'noun': 1.0}, in hundredths
Weights == [verb |-> 115, adjective |-> 100, noun |-> 100]
WeightDen == 100

\* the keys part_of_speeches may hold: the three defaults and one more
Categories == {"verb", "noun", "adjective", "adverb"}

\* train_test_component_ratio: the default 0.5, and 1.0
Ratios == {<<1, 2>>, <<1, 1>>}

\* the spec's end-to-end example
ExampleSynsets == << <<W_change, W_alter, W_modify>>, <<W_change, W_transform>> >>

\* the lists of at most MaxSynsets synsets of at most MaxLemmas lemma names,
\* the names of a list being single words and one multi-word name; and the
\* example's list
BuilderInputs ==
    UNION {ListsUpTo(DistinctSeqs(BuilderSingleWords \cup {multi}, MaxLemmas),
                     MaxSynsets) : multi \in BuilderWords \ BuilderSingleWords}
        \cup {ExampleSynsets}

\* synsets of two single words
PairSynsets == {s \in DistinctSeqs(PlainWords, 2) : Len(s) = 2}

\* where w stands in a sequence (0: nowhere)
IndexOf(s, w) ==
    IF w \in Range(s) THEN CHOOSE n \in 1..Len(s) : s[n] = w ELSE 0

\* b is in s only after a
Before(s, a, b) ==
    IndexOf(s, b) # 0 => (IndexOf(s, a) # 0 /\ IndexOf(s, a) < IndexOf(s, b))

\* create_dataset reads a word's spelling only in the edit distance of an
\* edge's two words.  Exchanging "run" and "runs", or permuting "buy", "sell"
\* and "own", keeps every edit distance being below MinEditDistance or not,
\* so a graph and its image under such a renaming run alike, word for word
\* renamed.  One graph of each such class is enumerated: the one whose nodes
\* meet these words in this order.
Canonical(g) ==
    /\ Before(g.nodes, W_run, W_runs)
    /\ Before(g.nodes, W_buy, W_sell)
    /\ Before(g.nodes, W_sell, W_own)

\* the graphs create_dataset is run on: what get_syngraph_wordset builds from
\* at most MaxPairSynsets two-word synsets, and the example's graph
DatasetGraphs ==
    {g \in {SynGraph(ss) : ss \in ListsUpTo(PairSynsets, MaxPairSynsets)} :
        Canonical(g)}
        \cup {SynGraph(ExampleSynsets)}

-----------------------------------------------------------------------------
(* create_dataset: the values computed from the arguments and the locals *)

\* edges = [(x, y) for (x, y) in graph.edges]
edges == Edges(graph)

\* all_words_len = len(graph.nodes)
all_words_len == Len(graph.nodes)

\* (a variant that rounds to the nearest integer)
TrainLenRounded(n, r) == (2 * n * r[1] + r[2]) \div (2 * r[2])

\* train_len = int(all_words_len*train_test_component_ratio)
TrainLen(n, r) == (n * r[1]) \div r[2]
train_len == TrainLen(all_words_len, ratio)

\* len(train_words) < train_len*weights[pos]
RouteToTrain(tw, tl, w) == Cardinality(tw) * WeightDen < tl * w

intersection == train_words \cap test_words
train_sampling == train_words \ intersection
test_sampling == test_words \ intersection

\* for (data, split) in zip([train_edges, test_edges], ['train', 'test']),
\* for (w1, w2) in data: the edges in the order the two loops take them
data == train_edges \o test_edges

\* the split the next edge belongs to
split == IF j < Len(train_edges) THEN "train" ELSE "test"

\* (a variant that forgets the neighbours)
PosWordsSelfOnly(g, w1) == {w1}

\* pos_words = set([w1] + list(graph.neighbors(w1)))
PosWords(g, w1) == {w1} \cup Range(Neighbors(g, w1))

\* the set neg_words is made from
NegPool(g, w1, sampling) == sampling \ PosWords(g, w1)

\* list(a set): a list of the set's members, in the order the process's
\* string hashing gives them
ListsOf(S) ==
    {l \in [1..Cardinality(S) -> S] : \A a, b \in 1..Len(l) : a # b => l[a] # l[b]}

Record(w1, w2, syn) ==
    [word1 |-> w1, word2 |-> w2, synonym |-> syn, pos |-> pos, split |-> split]

-----------------------------------------------------------------------------
(* The state machine *)

Idle ==
    /\ ratio = <<1, 2>> /\ k = DefaultNegativeSamplingCount /\ i = 0
    /\ train_words = {} /\ test_words = {}
    /\ train_edges = <<>> /\ test_edges = <<>>
    /\ j = 0 /\ records = <<>> /\ fault = "none"
    /\ draws = <<>> /\ drawn = 0 /\ process = 1 /\ first_records = <<>>

\* before get_syngraph_wordset runs on a category's synsets
InitBuilder ==
    /\ synsets \in BuilderInputs
    /\ pos = "verb"
    /\ built = 0
    /\ graph = EmptyGraph
    /\ pc = "build"
    /\ Idle

\* create_dataset called on a built graph, lines 218-229 done
InitDataset ==
    /\ synsets = <<>> /\ built = 0
    /\ graph \in DatasetGraphs
    /\ pos \in Categories
    /\ ratio \in Ratios
    /\ k = DefaultNegativeSamplingCount
    /\ pc = "split"
    /\ i = 0
    /\ train_words = {} /\ test_words = {}
    /\ train_edges = <<>> /\ test_edges = <<>>
    /\ j = 0 /\ records = <<>> /\ fault = "none"
    /\ draws = <<>> /\ drawn = 0 /\ process = 1 /\ first_records = <<>>

datasetVars == <<ratio, k, i, train_words, test_words, train_edges, test_edges,
                 j, records, fault, draws, drawn, process, first_records>>

\* one pass of `for synset in synsets`
BuildSynset ==
    /\ pc = "build"
    /\ built < Len(synsets)
    /\ graph' = AddSynset(graph, synsets[built + 1])
    /\ built' = built + 1
    /\ UNCHANGED <<synsets, pos, pc, datasetVars>>

\* the loop is over: the counts are printed and syn_graphs returned
BuildReturn ==
    /\ pc = "build"
    /\ built = Len(synsets)
    /\ pc' = "built"
    /\ UNCHANGED <<synsets, pos, built, graph, datasetVars>>

NextBuilder == BuildSynset \/ BuildReturn

SpecGraph == InitBuilder /\ [][NextBuilder]_vars


-----------------------------------------------------------------------------
(* create_dataset: the split loop, lines 230-236 *)

\* (a variant whose test branch updates train_words too)
SplitStepLeak(tw, sw, te, se, e, toTrain) ==
    IF toTrain
    THEN [train_words |-> tw \cup {e[1], e[2]}, test_words |-> sw,
          train_edges |-> Append(te, e), test_edges |-> se]
    ELSE [train_words |-> tw \cup {e[1], e[2]},
          test_words |-> sw \cup {e[1], e[2]},
          train_edges |-> te, test_edges |-> Append(se, e)]

\* (a variant whose train branch appends to test_edges too)
SplitStepBoth(tw, sw, te, se, e, toTrain) ==
    IF toTrain
    THEN [train_words |-> tw \cup {e[1], e[2]}, test_words |-> sw,
          train_edges |-> Append(te, e), test_edges |-> Append(se, e)]
    ELSE [train_words |-> tw, test_words |-> sw \cup {e[1], e[2]},
          train_edges |-> te, test_edges |-> Append(se, e)]

\* the two branches of the loop body, on the four collections
SplitStep(tw, sw, te, se, e, toTrain) ==
    IF toTrain
    THEN [train_words |-> tw \cup {e[1], e[2]}, test_words |-> sw,
          train_edges |-> Append(te, e), test_edges |-> se]
    ELSE [train_words |-> tw, test_words |-> sw \cup {e[1], e[2]},
          train_edges |-> te, test_edges |-> Append(se, e)]

SplitEdge ==
    /\ pc = "split"
    /\ i < Len(edges)
    /\ pos \in DOMAIN Weights
    /\ LET st == SplitStep(train_words, test_words, train_edges, test_edges,
                           edges[i + 1],
                           RouteToTrain(train_words, train_len, Weights[pos]))
       IN /\ train_words' = st.train_words
          /\ test_words' = st.test_words
          /\ train_edges' = st.train_edges
          /\ test_edges' = st.test_edges
    /\ i' = i + 1
    /\ UNCHANGED <<synsets, pos, built, graph, ratio, k, pc, j, records,
                   fault, draws, drawn, process, first_records>>

\* weights[pos] for a category the dictionary does not hold
SplitKeyError ==
    /\ pc = "split"
    /\ i < Len(edges)
    /\ pos \notin DOMAIN Weights
    /\ fault' = "KeyError"
    /\ pc' = "raised"
    /\ UNCHANGED <<synsets, pos, built, graph, ratio, k, i, train_words,
                   test_words, train_edges, test_edges, j, records,
                   draws, drawn, process, first_records>>

\* the loop is over: the counts are printed, the sampling sets computed
SplitEnd ==
    /\ pc = "split"
    /\ i = Len(edges)
    /\ pc' = "emit"
    /\ UNCHANGED <<synsets, pos, built, graph, ratio, k, i, train_words,
                   test_words, train_edges, test_edges, j, records,
                   fault, draws, drawn, process, first_records>>

-----------------------------------------------------------------------------
(* create_dataset: the emitting loops, lines 247-263 *)

sampling == IF split = "train" THEN train_sampling ELSE test_sampling

\* the positive record, then one negative record per drawn word
Yielded(w1, w2, neg_sampling) ==
    <<Record(w1, w2, 1)>>
        \o [m \in 1..Len(neg_sampling) |-> Record(w1, neg_sampling[m], 0)]

\* the edit-distance test of line 249
TooClose(w1, w2) == EditDistance(w1, w2) < MinEditDistance

\* (a variant that tests the first word only)
InIntersectionFirstOnly(w1, w2) == w1 \in intersection

\* the leakage test of line 251
InIntersection(w1, w2) == (w1 \in intersection) \/ (w2 \in intersection)

\* what the seeded generator gives for the next n draws: its earlier answers
\* where it has been asked before, any answers where it has not
NextDraws(n, size) ==
    {d \in [1..n -> 0..(size - 1)] :
        \A m \in 1..n : drawn + m <= Len(draws) => d[m] = draws[drawn + m]}

SkipTooClose ==
    /\ pc = "emit"
    /\ j < Len(data)
    /\ TooClose(data[j + 1][1], data[j + 1][2])
    /\ j' = j + 1
    /\ UNCHANGED <<synsets, pos, built, graph, ratio, k, pc, i, train_words,
                   test_words, train_edges, test_edges, records, fault,
                   draws, drawn, process, first_records>>

SkipIntersection ==
    /\ pc = "emit"
    /\ j < Len(data)
    /\ ~TooClose(data[j + 1][1], data[j + 1][2])
    /\ InIntersection(data[j + 1][1], data[j + 1][2])
    /\ j' = j + 1
    /\ UNCHANGED <<synsets, pos, built, graph, ratio, k, pc, i, train_words,
                   test_words, train_edges, test_edges, records, fault,
                   draws, drawn, process, first_records>>

\* random.choices(neg_words, k=...) on a list that is not empty, and the yields
EmitPair ==
    /\ pc = "emit"
    /\ j < Len(data)
    /\ LET w1 == data[j + 1][1]
           w2 == data[j + 1][2]
           pool == NegPool(graph, w1, sampling)
       IN /\ ~TooClose(w1, w2)
          /\ ~InIntersection(w1, w2)
          /\ pool # {}
          /\ \E neg_words \in ListsOf(pool) :
               \E d \in NextDraws(k, Len(neg_words)) :
                  /\ records' = records
                        \o Yielded(w1, w2, [m \in 1..k |-> neg_words[d[m] + 1]])
                  /\ draws' = SubSeq(draws, 1, drawn) \o d
                        \o SubSeq(draws, drawn + k + 1, Len(draws))
                  /\ drawn' = drawn + k
    /\ j' = j + 1
    /\ UNCHANGED <<synsets, pos, built, graph, ratio, k, pc, i, train_words,
                   test_words, train_edges, test_edges, fault, process,
                   first_records>>

\* random.choices([], k=...): IndexError, which nothing catches
RaiseEmptyPool ==
    /\ pc = "emit"
    /\ j < Len(data)
    /\ ~TooClose(data[j + 1][1], data[j + 1][2])
    /\ ~InIntersection(data[j + 1][1], data[j + 1][2])
    /\ NegPool(graph, data[j + 1][1], sampling) = {}
    /\ fault' = "IndexError"
    /\ pc' = "raised"
    /\ UNCHANGED <<synsets, pos, built, graph, ratio, k, i, train_words,
                   test_words, train_edges, test_edges, j, records,
                   draws, drawn, process, first_records>>

\* both lists are exhausted: the generator returns
EmitReturn ==
    /\ pc = "emit"
    /\ j = Len(data)
    /\ pc' = "done"
    /\ UNCHANGED <<synsets, pos, built, graph, ratio, k, i, train_words,
                   test_words, train_edges, test_edges, j, records,
                   fault, draws, drawn, process, first_records>>

\* the notebook is executed again, in a new interpreter process: the same
\* graphs, random.seed(0) again, string hashing seeded anew
Restart ==
    /\ pc \in {"done", "raised"}
    /\ process = 1
    /\ process' = 2
    /\ first_records' = records
    /\ pc' = "split"
    /\ i' = 0
    /\ train_words' = {} /\ test_words' = {}
    /\ train_edges' = <<>> /\ test_edges' = <<>>
    /\ j' = 0 /\ records' = <<>> /\ fault' = "none"
    /\ drawn' = 0
    /\ UNCHANGED <<synsets, pos, built, graph, ratio, k, draws>>

NextDataset ==
    \/ SplitEdge \/ SplitKeyError \/ SplitEnd
    \/ SkipTooClose \/ SkipIntersection \/ EmitPair \/ RaiseEmptyPool
    \/ EmitReturn

Spec == InitDataset /\ [][NextDataset]_vars

NextTwice == NextDataset \/ Restart

SpecTwice == InitDataset /\ [][NextTwice]_vars


-----------------------------------------------------------------------------
(* Properties *)

\* the split loop has run to its end
SplitPassOver == pc \in {"emit", "done"} \/ fault = "IndexError"

\* the run is over, by return or by an exception
Finished == pc \in {"done", "raised"}

HasSeparator(w) == \E n \in 1..Len(w) : w[n] \in {"-", "_"}

Adjacent(g, w1, w2) == w2 \in Range(g.adj[w1])

Positives == SelectSeq(records, LAMBDA r : r.synonym = 1)
Negatives == SelectSeq(records, LAMBDA r : r.synonym = 0)

\* C1: once the split loop is over, every edge of the graph is in train_edges
\* or in test_edges, none is in both, and none is listed twice.
C1_EdgesPartitioned ==
    SplitPassOver =>
        /\ Range(train_edges) \cup Range(test_edges) = Range(edges)
        /\ Range(train_edges) \cap Range(test_edges) = {}
        /\ Len(train_edges) + Len(test_edges) = Len(edges)

C1_Witness ==
    /\ pc = "emit"
    /\ Len(train_edges) >= 2
    /\ test_edges # <<>>

\* C2: no emitted record, positive or negative, train or test, has a word of
\* train_words \cap test_words as word1 or word2.
C2_NoLeakage ==
    \A n \in 1..Len(records) :
        /\ records[n].word1 \notin intersection
        /\ records[n].word2 \notin intersection

C2_Witness ==
    /\ intersection # {}
    /\ Len(Positives) >= 1
    /\ Len(Negatives) >= 1

\* C3: an edge that passes both filters and finds its candidate pool empty
\* raises nothing: its negatives are skipped and the run goes on to the
\* remaining edges.
C3_EmptyPoolHandled ==
    /\ fault # "IndexError"
    /\ pc = "done" =>
          \A n \in 1..Len(data) :
              (~TooClose(data[n][1], data[n][2])
                  /\ ~InIntersection(data[n][1], data[n][2])) =>
                  \E m \in 1..Len(records) :
                      /\ records[m].synonym = 1
                      /\ records[m].word1 = data[n][1]
                      /\ records[m].word2 = data[n][2]

\* C4, as stated: on the example (train fraction 1.0, k = 1, minimum edit
\* distance 2) the graph has 4 vertices and 4 edges, every edge is routed to
\* train, and the finished run has emitted 4 positive and 4 negative records.
\* (Stated for the category of the example's words, verb, where the routing
\* is as the claim says.)
ExampleRun ==
    /\ graph = SynGraph(ExampleSynsets)
    /\ ratio = <<1, 1>>
    /\ k = 1
    /\ MinEditDistance = 2

ExampleEdgeSet ==
    {{W_change, W_alter}, {W_change, W_modify}, {W_alter, W_modify},
     {W_change, W_transform}}

C5_NegativeDisjoint ==
    \A n \in 1..Len(records) :
        records[n].synonym = 0 =>
            /\ records[n].word2 # records[n].word1
            /\ ~Adjacent(graph, records[n].word1, records[n].word2)
            /\ ~Adjacent(graph, records[n].word2, records[n].word1)

C5_Witness ==
    \E n \in 1..Len(records) :
        /\ records[n].synonym = 0
        /\ records[n].split = "test"

\* C6: after any number of synsets, two words are joined exactly when they
\* are two different forms without a separator that some synset consumed so far
\* holds together; no word is joined to itself, no node has a separator, and
\* the nodes are the joined words, so that a synset with fewer than 2
\* separator-free forms adds nothing.
C6_EdgeIffShared ==
    LET singles(synset) == {w \in Range(synset) : ~HasSeparator(w)}
        shared == UNION {{p \in SUBSET singles(synsets[n]) : Cardinality(p) = 2} :
                            n \in 1..built}
        joined == UNION {{{w, graph.adj[w][n]} : n \in 1..Len(graph.adj[w])} :
                            w \in Words}
    IN /\ joined = shared
       /\ \A w \in Words : \A v \in Range(graph.adj[w]) : Adjacent(graph, v, w)
       /\ Range(graph.nodes) = UNION shared
       /\ Len(graph.nodes) = Cardinality(Range(graph.nodes))

C6_Witness ==
    /\ pc = "built"
    /\ graph.nodes # <<>>
    /\ \E n \in 1..Len(synsets) :
          /\ \E m \in 1..Len(synsets[n]) : HasSeparator(synsets[n][m])
          /\ \E m \in 1..Len(synsets[n]) : synsets[n][m] \in Range(graph.nodes)

\* C7: a second execution on the same graphs with the same seed yields the
\* records of the first, in the same order.
C7_SameSeedSameRecords ==
    (process = 2 /\ Finished) => records = first_records

\* C8: for every category of the input mapping and every graph, the split
\* loop runs to its end without an exception.
C8_SplitTotal ==
    /\ fault # "KeyError"
    /\ (pc = "raised" => i = Len(edges))

\* C9, as stated: an edge is routed to train_edges exactly when
\* |train_words| < r * m * |all vertices|, in exact rationals.
C9_ExactThreshold ==
    [][(pc = "split" /\ i' = i + 1) =>
          ((train_edges' # train_edges) <=>
              (Cardinality(train_words) * ratio[2] * WeightDen
                  < ratio[1] * Weights[pos] * all_words_len))]_vars

\* C9, amended: an edge is routed to train_edges exactly when
\* |train_words| < floor(r * |all vertices|) * m, and to test_edges otherwise.
C9_FloorThreshold ==
    [][(pc = "split" /\ i' = i + 1) =>
          LET toTrain == Cardinality(train_words) * WeightDen
                           < ((all_words_len * ratio[1]) \div ratio[2]) * Weights[pos]
          IN /\ toTrain => (/\ train_edges' = Append(train_edges, edges[i + 1])
                            /\ test_edges' = test_edges)
             /\ ~toTrain => (/\ test_edges' = Append(test_edges, edges[i + 1])
                             /\ train_edges' = train_edges)]_vars

C9_Witness ==
    /\ (all_words_len * ratio[1]) % ratio[2] # 0
    /\ train_edges # <<>>
    /\ test_edges # <<>>
    /\ Cardinality(train_words) * ratio[2] < ratio[1] * all_words_len

\* C10: train_edges is a prefix of the edge order and test_edges the rest of
\* what has been processed; once test_edges holds an edge, train_edges and
\* train_words change no more.
C10_OneCrossing ==
    /\ [](train_edges \o test_edges = SubSeq(edges, 1, i))
    /\ [][test_edges # <<>> =>
            (train_edges' = train_edges /\ train_words' = train_words)]_vars

C10_Witness ==
    /\ pc = "split"
    /\ train_edges # <<>>
    /\ Len(test_edges) >= 2

=============================================================================
